---- MODULE Spec2Model ----
(***************************************************************************)
(* A model of apollo's ReferenceLineProvider                               *)
(* (modules/planning/reference_line/reference_line_provider.cc): the       *)
(* worker thread that produces reference lines, the consumers that fetch   *)
(* them, the callers that update vehicle state and routing, and the        *)
(* lane-change history kept between pipeline runs.                         *)
(*                                                                         *)
(* Distances are integers (the vehicle positions are chosen so that every  *)
(* planar distance between two of them is a whole number), lateral offsets *)
(* are in hundredths of a unit, and the factor 0.6 is kept as 6 tenths.    *)
(***************************************************************************)
EXTENDS Integers, Sequences, FiniteSets, TLC

(* ------------------------------ bounds -------------------------------- *)

\* Pipeline runs (worker ticks that reach the pipeline, synchronous calls)
\* started in one behaviour.
MaxRuns == 2

\* The longest candidate list a helper called on its own is given.
MaxUnitLen == 3

(* -------------------------- program constants -------------------------- *)

\* constexpr double kChangeLaneMinL = 0.25, in hundredths.
kChangeLaneMinL == 25

\* constexpr double kChangeLaneMinLengthFactor = 0.6, in tenths.
kChangeLaneMinLengthFactor == 6

\* The denominator of kChangeLaneMinLengthFactor (tenths).
kFactorScale == 10

\* const double kReferenceLineDiffCheckResolution = 5.0.
kReferenceLineDiffCheckResolution == 5

\* FLAGS_min_length_for_lane_change, in distance units.
FLAGS_min_length_for_lane_change == 25

\* FLAGS_look_forward_time_sec, FLAGS_look_forward_min_distance,
\* FLAGS_look_forward_distance.
FLAGS_look_forward_time_sec == 8

FLAGS_look_forward_min_distance == 100

FLAGS_look_forward_distance == 250

(* ------------------------------ domains ------------------------------- *)

Worker == "w"

Consumers == {"c1", "c2"}

\* The threads that can run the pipeline (CreateReferenceLineFromRouting).
Runners == {Worker} \cup Consumers

\* The thread calling UpdateVehicleState / UpdateRoutingResponse, and the
\* thread calling Stop.
Updater == "u"

Stopper == "s"

Threads == Runners \cup {Updater, Stopper}

Free == "free"

\* Vehicle positions on one line, at distances 5, 10 and 15 of each other:
\* 15 is 0.6 times FLAGS_min_length_for_lane_change.
Points == {<<0, 0>>, <<3, 4>>, <<9, 12>>}

Velocities == {0, 20}

\* The vehicle states UpdateVehicleState is called with: standing at the
\* first point, moving at the others.
VehicleStates ==
    {[point |-> p, v |-> IF p = <<0, 0>> THEN 0 ELSE 20] : p \in Points}

\* Lateral offsets l answered by RouteSegments::GetProjection (hundredths).
LValues == {-10, 25}

\* The ids of the map's segments.
SegIds == {1, 2}

Routes == {1, 2}

\* A RouteSegments: its Id() and its IsOnSegment() flag.
Segment == [id : SegIds, on : BOOLEAN]

\* The map answers the segments of a list with increasing ids.
DistinctIds(s) == \A i, j \in 1..Len(s) : i < j => s[i].id < s[j].id

\* The lists pnc_map_->GetRouteSegments can answer on a map whose routes
\* have at most lanes parallel segments.
CandidateLists(lanes) ==
    {s \in UNION {[1..n -> [id : 1..lanes, on : BOOLEAN]] : n \in 0..lanes} :
        DistinctIds(s)}

\* The deployments explored: the flags, the consumer threads that call
\* GetReferenceLines and the map handed to Init. Over a single-lane map,
\* where neither lane-change flag matters, every consumer runs. Over a
\* two-lane map one thread runs the pipeline: the worker in threaded mode,
\* one consumer, under every setting of the lane-change flags, in
\* synchronous mode.
Deployments ==
    {d \in [enable_thread : BOOLEAN, reckless_change_lane : BOOLEAN,
            prioritize_change_lane : BOOLEAN, callers : SUBSET Consumers,
            lanes : {1, Cardinality(SegIds)}] :
        \/ /\ d.lanes = 1
           /\ d.callers = Consumers
           /\ ~d.reckless_change_lane /\ ~d.prioritize_change_lane
        \/ /\ d.lanes = Cardinality(SegIds)
           /\ d.enable_thread
           /\ d.callers = {}
           /\ ~d.reckless_change_lane /\ ~d.prioritize_change_lane
        \/ /\ d.lanes = Cardinality(SegIds)
           /\ ~d.enable_thread
           /\ d.callers = {"c1"}}

NoEntry == [present |-> FALSE]

(* --------------------------- pure functions --------------------------- *)

\* std::fabs
Abs(x) == IF x < 0 THEN -x ELSE x

Min(a, b) == IF a < b THEN a ELSE b

\* Integer square root (exact on the squares the model's points produce).
Sqrt(n) == CHOOSE r \in 0..n : r * r <= n /\ (r + 1) * (r + 1) > n

\* common::util::DistanceXY
DistanceXY(p, q) ==
    Sqrt((p[1] - q[1]) * (p[1] - q[1]) + (p[2] - q[2]) * (p[2] - q[2]))

\* A scan that takes the front of the list for the forward segment.
FrontSegment(segs) == IF segs = <<>> THEN 0 ELSE 1

\* The index of the first segment satisfying / not satisfying IsOnSegment(),
\* 0 when there is none (the iterator reached end()).
FirstOn(segs) ==
    IF \E i \in 1..Len(segs) : segs[i].on
    THEN CHOOSE i \in 1..Len(segs) :
             segs[i].on /\ \A j \in 1..(i - 1) : ~segs[j].on
    ELSE 0

FirstNotOn(segs) ==
    IF \E i \in 1..Len(segs) : ~segs[i].on
    THEN CHOOSE i \in 1..Len(segs) :
             ~segs[i].on /\ \A j \in 1..(i - 1) : segs[j].on
    ELSE 0

\* A prioritization that exchanges the front with the first segment that is
\* not the current one.
PrioritzeBySwap(segs) ==
    LET i == FirstNotOn(segs)
    IN IF i = 0 THEN segs
       ELSE [k \in 1..Len(segs) |->
                IF k = 1 THEN segs[i] ELSE IF k = i THEN segs[1] ELSE segs[k]]

\* PrioritzeChangeLane: splice the first segment that is not the current one
\* to the front.
PrioritzeChangeLane(segs) ==
    LET i == FirstNotOn(segs)
    IN IF i = 0 THEN segs
       ELSE <<segs[i]>> \o SubSeq(segs, 1, i - 1)
                        \o SubSeq(segs, i + 1, Len(segs))

\* look_forward_distance of CreateReferenceLineFromRouting.
LookForwardDistance(v) ==
    IF v * FLAGS_look_forward_time_sec > FLAGS_look_forward_min_distance
    THEN FLAGS_look_forward_distance
    ELSE FLAGS_look_forward_min_distance

\* A first observation that records l with its sign.
HistoryInsertSigned(l, point) ==
    [present |-> TRUE, min_l |-> l, last_point |-> point, accumulate_s |-> 0]

\* IsAllowChangeLane, first observation: the entry operator[] creates.
HistoryInsert(l, point) ==
    [present |-> TRUE, min_l |-> Abs(l), last_point |-> point,
     accumulate_s |-> 0]

\* An update that keeps the latest |l| instead of the least.
HistoryUpdateLatestL(e, l, point) ==
    [present |-> TRUE,
     min_l |-> Abs(l),
     last_point |-> point,
     accumulate_s |-> e.accumulate_s + DistanceXY(e.last_point, point)]

\* IsAllowChangeLane, later observation: the entry after the update.
HistoryUpdate(e, l, point) ==
    [present |-> TRUE,
     min_l |-> Min(e.min_l, Abs(l)),
     last_point |-> point,
     accumulate_s |-> e.accumulate_s + DistanceXY(e.last_point, point)]

\* A threshold test that excludes the boundary of the distance.
ChangeLaneThresholdExclusive(e) ==
    /\ e.min_l < kChangeLaneMinL
    /\ kFactorScale * e.accumulate_s
           > kChangeLaneMinLengthFactor * FLAGS_min_length_for_lane_change

\* IsAllowChangeLane, the threshold test on the updated entry.
ChangeLaneThreshold(e) ==
    /\ e.min_l < kChangeLaneMinL
    /\ kFactorScale * e.accumulate_s
           >= kChangeLaneMinLengthFactor * FLAGS_min_length_for_lane_change

(* ------------------------------- state -------------------------------- *)

VARIABLES
    enable_thread,         \* FLAGS_enable_reference_line_provider_thread
    reckless_change_lane,  \* FLAGS_reckless_change_lane
    prioritize_change_lane,\* FLAGS_prioritize_change_lane
    callers,               \* the consumer threads of this deployment
    map_lanes,             \* the most segments the map answers in one list
    is_initialized_,
    has_routing_,
    is_stop_,
    vehicle_state_,
    pnc_routing,           \* the route pnc_map_ holds (0: none)
    segment_history_,      \* segment id -> entry, NoEntry when absent
    pnc_map_mutex_,        \* the thread holding the state lock, or Free
    reference_lines_mutex_,\* the thread holding the snapshot lock, or Free
    cv_waiters,            \* consumers blocked in cv_has_reference_line_.wait
    reference_lines_,      \* the published snapshot: reference lines
    route_segments_,       \* the published snapshot: route segments
    pc,                    \* each thread's position
    loc,                   \* each runner's locals of the pipeline
    out,                   \* each runner's output lists
    ret,                   \* what GetReferenceLines returned to each consumer
    runs,                  \* pipeline runs started so far
    unit                   \* a call of one of the pure helpers, on its own

vars ==
    <<enable_thread, reckless_change_lane, prioritize_change_lane, callers,
      map_lanes,
      is_initialized_, has_routing_, is_stop_, vehicle_state_, pnc_routing,
      segment_history_, pnc_map_mutex_, reference_lines_mutex_, cv_waiters,
      reference_lines_, route_segments_, pc, loc, out, ret, runs, unit>>

\* What no thread of the provider writes: the flags, the deployment, and the
\* record of a helper called on its own.
flags == <<enable_thread, reckless_change_lane, prioritize_change_lane,
           callers, map_lanes, unit>>

snapshot == <<reference_lines_, route_segments_>>

\* A runner's locals outside a pipeline run. After a run, run, produced,
\* is_allow_change_lane and result keep what the run was, did and answered.
NoLocals ==
    [look_forward_distance |-> 0, point |-> <<0, 0>>, route_segments |-> <<>>,
     id |-> 0, l |-> 0, iter |-> "none", is_allow_change_lane |-> FALSE,
     run |-> 0, produced |-> 0, result |-> FALSE]

EmptyOut == [reference_lines |-> <<>>, segments |-> <<>>]

\* Output lists a caller may hand in already filled (left from an earlier
\* call): run 0 marks content no run of this behaviour produced.
StaleOut ==
    [reference_lines |-> <<[id |-> 1, run |-> 0]>>,
     segments |-> <<[id |-> 1, on |-> TRUE, run |-> 0]>>]

\* The lists GetReferenceLines is called with. In threaded mode assign()
\* replaces whatever they held, and only empty lists are explored.
CallerLists == IF enable_thread THEN {EmptyOut} ELSE {EmptyOut, StaleOut}

\* The positions of CreateReferenceLineFromRouting.
PipelinePcs ==
    {"look_forward", "state_lock", "fetch", "allow", "history"}

\* No helper is called on its own.
NoCall == [fn |-> "none"]

\* The provider after construction; the flags are fixed before it.
Constructed ==
    /\ \E d \in Deployments :
           /\ enable_thread = d.enable_thread
           /\ reckless_change_lane = d.reckless_change_lane
           /\ prioritize_change_lane = d.prioritize_change_lane
           /\ callers = d.callers
           /\ map_lanes = d.lanes
    /\ is_initialized_ = FALSE
    /\ has_routing_ = FALSE
    /\ is_stop_ = FALSE
    /\ vehicle_state_ = [point |-> <<0, 0>>, v |-> 0]
    /\ pnc_routing = 0
    /\ segment_history_ = [i \in SegIds |-> NoEntry]
    /\ pnc_map_mutex_ = Free
    /\ reference_lines_mutex_ = Free
    /\ cv_waiters = {}
    /\ reference_lines_ = <<>>
    /\ route_segments_ = <<>>
    /\ pc = [t \in Threads |-> IF t = Worker THEN "none" ELSE "idle"]
    /\ loc = [t \in Runners |-> NoLocals]
    /\ out = [t \in Runners |-> EmptyOut]
    /\ ret = [t \in Runners |-> FALSE]
    /\ runs = 0

\* The state after construction.
Init == Constructed /\ unit = NoCall

(* ---------------------- Init, Start, Stop (callers) ------------------- *)

\* ReferenceLineProvider::Init
ProviderInit ==
    /\ ~is_initialized_
    /\ is_initialized_' = TRUE
    /\ segment_history_' = [i \in SegIds |-> NoEntry]
    /\ UNCHANGED <<flags, has_routing_, is_stop_, vehicle_state_, pnc_routing,
                   pnc_map_mutex_, reference_lines_mutex_, cv_waiters,
                   snapshot, pc, loc, out, ret, runs>>

\* ReferenceLineProvider::Start, called once: a failure before Init, the
\* worker thread in threaded mode.
Start ==
    /\ pc[Worker] = "none"
    /\ is_initialized_
    /\ enable_thread
    /\ pc' = [pc EXCEPT ![Worker] = "loop"]
    /\ UNCHANGED <<flags, is_initialized_, has_routing_, is_stop_,
                   vehicle_state_, pnc_routing, segment_history_,
                   pnc_map_mutex_, reference_lines_mutex_, cv_waiters,
                   snapshot, loc, out, ret, runs>>

\* A Stop that raises the flag and does not join.
NeverJoins == FALSE

\* Stop, lines 154-155: whether there is a thread to join.
Joinable == enable_thread /\ pc[Worker] # "none"

\* ReferenceLineProvider::Stop, line 153: raise the flag; then join the
\* worker if there is one.
StopRaise ==
    /\ pc[Stopper] = "idle"
    /\ is_stop_' = TRUE
    /\ pc' = [pc EXCEPT ![Stopper] = IF Joinable THEN "join" ELSE "stopped"]
    /\ UNCHANGED <<flags, is_initialized_, has_routing_, vehicle_state_,
                   pnc_routing, segment_history_, pnc_map_mutex_,
                   reference_lines_mutex_, cv_waiters, snapshot, loc, out,
                   ret, runs>>

\* ReferenceLineProvider::Stop, line 156: thread_->join() returns once the
\* worker has left GenerateThread.
StopJoin ==
    /\ pc[Stopper] = "join"
    /\ pc[Worker] = "done"
    /\ pc' = [pc EXCEPT ![Stopper] = "stopped"]
    /\ UNCHANGED <<flags, is_initialized_, has_routing_, is_stop_,
                   vehicle_state_, pnc_routing, segment_history_,
                   pnc_map_mutex_, reference_lines_mutex_, cv_waiters,
                   snapshot, loc, out, ret, runs>>

(* ------------- UpdateVehicleState, UpdateRoutingResponse -------------- *)

\* UpdateVehicleState, line 136, and UpdateRoutingResponse, line 122: take
\* the state lock.
UpdaterLock(call) ==
    /\ pc[Updater] = "idle"
    /\ is_initialized_
    /\ pnc_map_mutex_ = Free
    /\ pnc_map_mutex_' = Updater
    /\ pc' = [pc EXCEPT ![Updater] = call]
    /\ UNCHANGED <<flags, is_initialized_, has_routing_, is_stop_,
                   vehicle_state_, pnc_routing, segment_history_,
                   reference_lines_mutex_, cv_waiters, snapshot, loc, out,
                   ret, runs>>

\* UpdateVehicleState, lines 137-138: overwrite the copy with the caller's
\* state, release the lock.
UpdateVehicleState(vs) ==
    /\ pc[Updater] = "vehicle"
    /\ vehicle_state_' = vs
    /\ pnc_map_mutex_' = Free
    /\ pc' = [pc EXCEPT ![Updater] = "idle"]
    /\ UNCHANGED <<flags, is_initialized_, has_routing_, is_stop_,
                   pnc_routing, segment_history_, reference_lines_mutex_,
                   cv_waiters, snapshot, loc, out, ret, runs>>

\* segment_history_.clear(): every entry goes, and an iterator a runner got
\* from find() and has not used yet dangles.
ClearedLocals ==
    [t \in Runners |->
        IF loc[t].iter = "found" THEN [loc[t] EXCEPT !.iter = "dangling"]
        ELSE loc[t]]

\* pnc_map_->UpdateRoutingResponse(routing) succeeding: the map holds the
\* new route and IsSameRouting() compares it with the one it held.
IsSameRouting(routing) == routing = pnc_routing

\* A routing update that never clears the table.
HistoryKeptAfterRouting(same) == segment_history_

\* UpdateRoutingResponse, lines 127-129: the table after an accepted routing.
HistoryAfterRouting(same) ==
    IF same THEN segment_history_ ELSE [i \in SegIds |-> NoEntry]

\* An update that raises has_routing_ before it asks the map.
HasRoutingSetFirst(accepted) == TRUE

\* UpdateRoutingResponse, lines 123-130: has_routing_ after the call; line
\* 130 is not reached when the map rejects the routing.
HasRoutingAfter(accepted) == accepted \/ has_routing_

\* UpdateRoutingResponse, lines 125 and 131: what the call returns.
RoutingReturn(accepted) == accepted

\* UpdateRoutingResponse, lines 123-132, called with routing, the map
\* accepting it or not: what it returns and what it leaves in the members.
RoutingOutcome(routing, accepted) ==
    [result |-> RoutingReturn(accepted),
     has_routing |-> HasRoutingAfter(accepted),
     pnc_routing |-> IF accepted THEN routing ELSE pnc_routing,
     history |-> IF accepted THEN HistoryAfterRouting(IsSameRouting(routing))
                 ELSE segment_history_]

\* UpdateRoutingResponse, lines 123-132, then the lock is released.
UpdateRoutingResponse(routing, accepted) ==
    /\ pc[Updater] = "routing"
    /\ LET o == RoutingOutcome(routing, accepted)
       IN /\ pnc_routing' = o.pnc_routing
          /\ has_routing_' = o.has_routing
          /\ segment_history_' = o.history
    /\ loc' = IF accepted /\ ~IsSameRouting(routing) THEN ClearedLocals
              ELSE loc
    /\ pnc_map_mutex_' = Free
    /\ pc' = [pc EXCEPT ![Updater] = "idle"]
    /\ UNCHANGED <<flags, is_initialized_, is_stop_, vehicle_state_,
                   reference_lines_mutex_, cv_waiters, snapshot, out, ret,
                   runs>>

(* ------------- the pipeline: CreateReferenceLineFromRouting ----------- *)

\* What the callers of the pipeline leave alone.
shared_rest == <<flags, is_initialized_, has_routing_, is_stop_, pnc_routing,
                 reference_lines_mutex_, cv_waiters, snapshot>>

\* A worker that publishes whatever the pipeline answered.
WorkerPublishesAnyway(result) == "publish_lock"

\* GenerateThread, line 171: where the worker goes with the pipeline's result.
WorkerAfterRun(result) == IF result THEN "publish_lock" ELSE "loop"

\* GetReferenceLines, line 197: what it returns in synchronous mode.
SyncReturn(result) == result

\* The return of CreateReferenceLineFromRouting to its caller: the worker
\* (line 171) or GetReferenceLines in synchronous mode (line 197).
PipelineReturn(t, result, produced, allow) ==
    /\ ret' = [ret EXCEPT ![t] = IF t = Worker THEN FALSE
                                 ELSE SyncReturn(result)]
    /\ loc' = [loc EXCEPT ![t] = [NoLocals EXCEPT
                                      !.run = loc[t].run,
                                      !.produced = produced,
                                      !.is_allow_change_lane = allow,
                                      !.result = result]]
    /\ pc' = [pc EXCEPT ![t] = IF t = Worker THEN WorkerAfterRun(result)
                               ELSE "returned"]

\* The values an unlocked read of vehicle_state_.linear_velocity() can see:
\* the stored one, or any while UpdateVehicleState is writing (a data race).
VelocityRead ==
    IF pc[Updater] = "vehicle" THEN Velocities ELSE {vehicle_state_.v}

\* Lines 218-222: look_forward_distance, read before the lock is taken.
LookForward(t) ==
    /\ pc[t] = "look_forward"
    /\ \E v \in VelocityRead :
           loc' = [loc EXCEPT ![t].look_forward_distance =
                                  LookForwardDistance(v)]
    /\ pc' = [pc EXCEPT ![t] = "state_lock"]
    /\ UNCHANGED <<shared_rest, vehicle_state_, segment_history_,
                   pnc_map_mutex_, out, ret, runs>>

\* Line 225: std::lock_guard on pnc_map_mutex_.
StateLock(t) ==
    /\ pc[t] = "state_lock"
    /\ pnc_map_mutex_ = Free
    /\ pnc_map_mutex_' = t
    /\ pc' = [pc EXCEPT ![t] = "fetch"]
    /\ UNCHANGED <<shared_rest, vehicle_state_, segment_history_, loc, out,
                   ret, runs>>

\* A locked scope that reaches to the end of the function.
LockScopeStaysOpen == UNCHANGED pnc_map_mutex_

\* Line 234 (and the return of line 232): the scope of the lock_guard ends.
LockScopeEnds == pnc_map_mutex_' = Free

\* Lines 226-234: snapshot the position, ask the map for the candidates (it
\* fails or answers a list), leave the lock's scope.
Fetch(t) ==
    /\ pc[t] = "fetch"
    /\ LockScopeEnds
    /\ \/ /\ PipelineReturn(t, FALSE, 0, FALSE)
          /\ out' = out
       \/ \E segs \in CandidateLists(map_lanes) :
              /\ loc' = [loc EXCEPT ![t].look_forward_distance = 0,
                                    ![t].point = vehicle_state_.point,
                                    ![t].route_segments = segs]
              /\ pc' = [pc EXCEPT ![t] = "allow"]
              /\ UNCHANGED <<out, ret>>
    /\ UNCHANGED <<shared_rest, vehicle_state_, segment_history_, runs>>

\* Lines 235-237: the candidate list IsAllowChangeLane and the loop see.
Prioritized(segs) ==
    IF prioritize_change_lane THEN PrioritzeChangeLane(segs) ELSE segs

\* The elements of segs whose index is in keep, in order, from index i on.
RECURSIVE Select(_, _, _)
Select(segs, keep, i) ==
    IF i > Len(segs) THEN <<>>
    ELSE (IF i \in keep THEN <<segs[i]>> ELSE <<>>)
             \o Select(segs, keep, i + 1)

\* Lines 239-242: the segments the loop does not skip.
Attempted(segs, allow) ==
    {i \in 1..Len(segs) : allow \/ segs[i].on}

\* Lines 252-257: the pipeline's result, from the output list.
RunSucceeds(reference_lines) == reference_lines # <<>>

\* Lines 239-257, on data no other thread sees: the loop over the candidates
\* (SmoothReferenceLine succeeds on the segments in smoothed), the appends
\* to the caller's lists, and the result.
Smooth(t, segs, allow) ==
    \E smoothed \in SUBSET (1..Len(segs)) :
        LET kept == Select(segs, Attempted(segs, allow) \cap smoothed, 1)
            lines == [i \in 1..Len(kept) |->
                         [id |-> kept[i].id, run |-> loc[t].run]]
            lanes == [i \in 1..Len(kept) |->
                         [id |-> kept[i].id, on |-> kept[i].on,
                          run |-> loc[t].run]]
            filled == [reference_lines |-> out[t].reference_lines \o lines,
                       segments |-> out[t].segments \o lanes]
        IN /\ out' = [out EXCEPT ![t] = filled]
           /\ PipelineReturn(t, RunSucceeds(filled.reference_lines),
                             Len(kept), allow)

\* Lines 235-238 and IsAllowChangeLane lines 72-95, with no lock held:
\* prioritize, then the early returns of IsAllowChangeLane, the projection
\* (it fails, or answers l) and segment_history_.find. A call that returns
\* here goes on to the loop.
Allow(t) ==
    /\ pc[t] = "allow"
    /\ LET segs == Prioritized(loc[t].route_segments)
           fwd == FirstOn(segs)
       IN IF reckless_change_lane THEN Smooth(t, segs, TRUE)
          ELSE IF Len(segs) <= 1 THEN Smooth(t, segs, FALSE)
          ELSE IF fwd = 0 THEN Smooth(t, segs, TRUE)
          ELSE \/ Smooth(t, segs, FALSE)       \* GetProjection fails
               \/ \E l \in LValues :
                      /\ loc' = [loc EXCEPT
                             ![t].route_segments = segs,
                             ![t].id = segs[fwd].id,
                             ![t].l = l,
                             ![t].iter =
                                 IF segment_history_[segs[fwd].id].present
                                 THEN "found" ELSE "end"]
                      /\ pc' = [pc EXCEPT ![t] = "history"]
                      /\ UNCHANGED <<out, ret>>
    /\ UNCHANGED <<shared_rest, vehicle_state_, segment_history_,
                   pnc_map_mutex_, runs>>

\* IsAllowChangeLane lines 96-117, with no lock held, then the loop: the
\* entry is created (operator[]) or updated through the iterator. An
\* iterator that a concurrent clear() left dangling is undefined behaviour:
\* the write goes to freed memory and the result is whatever that memory
\* holds.
History(t) ==
    /\ pc[t] = "history"
    /\ LET id == loc[t].id
           segs == loc[t].route_segments
           e == HistoryUpdate(segment_history_[id], loc[t].l, loc[t].point)
       IN CASE loc[t].iter = "end" ->
                   /\ segment_history_' =
                          [segment_history_ EXCEPT
                              ![id] = HistoryInsert(loc[t].l, loc[t].point)]
                   /\ Smooth(t, segs, FALSE)
            [] loc[t].iter = "found" ->
                   /\ segment_history_' = [segment_history_ EXCEPT ![id] = e]
                   /\ Smooth(t, segs, ChangeLaneThreshold(e))
            [] OTHER ->
                   /\ segment_history_' = segment_history_
                   /\ \E b \in BOOLEAN : Smooth(t, segs, b)
    /\ UNCHANGED <<shared_rest, vehicle_state_, pnc_map_mutex_, runs>>

(* ----------------------- the worker: GenerateThread -------------------- *)

state_rest == <<flags, is_initialized_, has_routing_, is_stop_,
                vehicle_state_, pnc_routing, segment_history_,
                pnc_map_mutex_>>

\* A runner's locals at the start of run number n.
RunLocals(n) == [NoLocals EXCEPT !.run = n]

\* Line 162: while (!is_stop_); the locals of the last iteration are gone.
\* Once MaxRuns runs have started the worker stays here until it is stopped.
WorkerLoop ==
    /\ pc[Worker] = "loop"
    /\ is_stop_ \/ runs < MaxRuns
    /\ pc' = [pc EXCEPT ![Worker] = IF is_stop_ THEN "done" ELSE "sleep"]
    /\ loc' = [loc EXCEPT ![Worker] = NoLocals]
    /\ out' = [out EXCEPT ![Worker] = EmptyOut]
    /\ UNCHANGED <<state_rest, reference_lines_mutex_, cv_waiters, snapshot,
                   ret, runs>>

\* A worker that runs the pipeline on every tick.
TickNeverSkipped == FALSE

\* Line 165: if (!has_routing_) continue.
TickSkipped == ~has_routing_

\* Lines 163-170: the sleep is over; without routing the tick is skipped,
\* otherwise the run starts on two fresh lists.
WorkerTick ==
    /\ pc[Worker] = "sleep"
    /\ IF TickSkipped
       THEN /\ pc' = [pc EXCEPT ![Worker] = "loop"]
            /\ UNCHANGED <<loc, out, runs>>
       ELSE /\ pc' = [pc EXCEPT ![Worker] = "look_forward"]
            /\ loc' = [loc EXCEPT ![Worker] = RunLocals(runs + 1)]
            /\ out' = [out EXCEPT ![Worker] = EmptyOut]
            /\ runs' = runs + 1
    /\ UNCHANGED <<state_rest, reference_lines_mutex_, cv_waiters, snapshot,
                   ret>>

\* A publication that does not take the snapshot lock.
WorkerSkipsLock == UNCHANGED reference_lines_mutex_

\* Line 175: std::unique_lock on reference_lines_mutex__.
WorkerAcquire ==
    /\ reference_lines_mutex_ = Free
    /\ reference_lines_mutex_' = Worker

PublishLock ==
    /\ pc[Worker] = "publish_lock"
    /\ WorkerAcquire
    /\ pc' = [pc EXCEPT ![Worker] = "publish_lines"]
    /\ UNCHANGED <<state_rest, cv_waiters, snapshot, loc, out, ret, runs>>

\* Line 176: reference_lines_ = reference_lines.
PublishLines ==
    /\ pc[Worker] = "publish_lines"
    /\ reference_lines_' = out[Worker].reference_lines
    /\ pc' = [pc EXCEPT ![Worker] = "publish_segments"]
    /\ UNCHANGED <<state_rest, reference_lines_mutex_, cv_waiters,
                   route_segments_, loc, out, ret, runs>>

\* Lines 177-178: route_segments_ = segments; lock.unlock().
PublishSegments ==
    /\ pc[Worker] = "publish_segments"
    /\ route_segments_' = out[Worker].segments
    /\ reference_lines_mutex_' =
           IF reference_lines_mutex_ = Worker THEN Free
           ELSE reference_lines_mutex_
    /\ pc' = [pc EXCEPT ![Worker] = "notify"]
    /\ UNCHANGED <<state_rest, cv_waiters, reference_lines_, loc, out, ret,
                   runs>>

\* Line 179: cv_has_reference_line_.notify_one() wakes one of the consumers
\* blocked in wait, if there is one.
Notify ==
    /\ pc[Worker] = "notify"
    /\ IF cv_waiters = {}
       THEN /\ pc' = [pc EXCEPT ![Worker] = "loop"]
            /\ cv_waiters' = cv_waiters
       ELSE \E c \in cv_waiters :
                /\ cv_waiters' = cv_waiters \ {c}
                /\ pc' = [pc EXCEPT ![Worker] = "loop", ![c] = "reacquire"]
    /\ UNCHANGED <<state_rest, reference_lines_mutex_, snapshot, loc, out,
                   ret, runs>>

(* --------------------- consumers: GetReferenceLines ------------------- *)

\* A GetReferenceLines that waits for the snapshot in either mode.
AlwaysUsesSnapshot == TRUE

\* Line 188: the mode GetReferenceLines runs in.
UsesSnapshot == enable_thread

\* GetReferenceLines is called with the caller's two lists: in threaded mode
\* it goes for the snapshot lock (line 189), in synchronous mode it runs the
\* pipeline on the caller's lists (line 197).
Call(c, lists) ==
    /\ pc[c] = "idle"
    /\ c \in callers
    /\ is_initialized_
    /\ UsesSnapshot \/ runs < MaxRuns
    /\ out' = [out EXCEPT ![c] = lists]
    /\ IF UsesSnapshot
       THEN /\ pc' = [pc EXCEPT ![c] = "snap_lock"]
            /\ loc' = [loc EXCEPT ![c] = NoLocals]
            /\ runs' = runs
       ELSE /\ pc' = [pc EXCEPT ![c] = "look_forward"]
            /\ loc' = [loc EXCEPT ![c] = RunLocals(runs + 1)]
            /\ runs' = runs + 1
    /\ UNCHANGED <<state_rest, reference_lines_mutex_, cv_waiters, snapshot,
                   ret>>

\* Line 189, and the re-acquisition inside wait after a wakeup.
SnapLock(c) ==
    /\ pc[c] \in {"snap_lock", "reacquire"}
    /\ reference_lines_mutex_ = Free
    /\ reference_lines_mutex_' = c
    /\ pc' = [pc EXCEPT ![c] = IF pc[c] = "snap_lock" THEN "check"
                               ELSE "recheck"]
    /\ UNCHANGED <<state_rest, cv_waiters, snapshot, loc, out, ret, runs>>

\* A wait that trusts the wakeup instead of checking the predicate again.
WaitOverTrustsWakeup(woken) == woken \/ reference_lines_ # <<>>

\* Lines 190-191: whether wait(lock, pred) is over; woken says that the
\* thread comes from a wakeup.
WaitOver(woken) == reference_lines_ # <<>>

\* A wait that blocks with the lock held.
SnapshotLockKeptInWait(over) ==
    IF over THEN Free ELSE reference_lines_mutex_

\* Lines 190 and 194: the snapshot lock after the predicate was evaluated:
\* wait releases it while the thread is blocked, unlock() after the copy.
SnapshotLockAfterCheck(over) == Free

\* Lines 190-195, the lock held: the predicate holds and the snapshot is
\* copied out, or the thread blocks in wait, which releases the lock.
Check(c) ==
    /\ pc[c] \in {"check", "recheck"}
    /\ reference_lines_mutex_' = SnapshotLockAfterCheck(WaitOver(pc[c] = "recheck"))
    /\ IF WaitOver(pc[c] = "recheck")
       THEN /\ out' = [out EXCEPT ![c] = [reference_lines |-> reference_lines_,
                                          segments |-> route_segments_]]
            /\ ret' = [ret EXCEPT ![c] = TRUE]
            /\ pc' = [pc EXCEPT ![c] = "returned"]
            /\ cv_waiters' = cv_waiters
       ELSE /\ cv_waiters' = cv_waiters \cup {c}
            /\ pc' = [pc EXCEPT ![c] = "waiting"]
            /\ UNCHANGED <<out, ret>>
    /\ UNCHANGED <<state_rest, snapshot, loc, runs>>

\* A spurious wakeup of a consumer blocked in wait.
SpuriousWakeup(c) ==
    /\ pc[c] = "waiting"
    /\ c \in cv_waiters
    /\ cv_waiters' = cv_waiters \ {c}
    /\ pc' = [pc EXCEPT ![c] = "reacquire"]
    /\ UNCHANGED <<state_rest, reference_lines_mutex_, snapshot, loc, out,
                   ret, runs>>

\* The caller has its answer, drops it and may call again.
Return(c) ==
    /\ pc[c] = "returned"
    /\ pc' = [pc EXCEPT ![c] = "idle"]
    /\ loc' = [loc EXCEPT ![c] = NoLocals]
    /\ out' = [out EXCEPT ![c] = EmptyOut]
    /\ ret' = [ret EXCEPT ![c] = FALSE]
    /\ UNCHANGED <<state_rest, reference_lines_mutex_, cv_waiters, snapshot,
                   runs>>

(* --------------------------- specification ---------------------------- *)

\* A step of the pipeline by runner t.
Pipeline(t) ==
    \/ LookForward(t)
    \/ StateLock(t)
    \/ Fetch(t)
    \/ Allow(t)
    \/ History(t)

WorkerStep ==
    \/ WorkerLoop
    \/ WorkerTick
    \/ Pipeline(Worker)
    \/ PublishLock
    \/ PublishLines
    \/ PublishSegments
    \/ Notify

ConsumerStep(c) ==
    \/ SnapLock(c)
    \/ Check(c)
    \/ Pipeline(c)
    \/ Return(c)

Next ==
    \/ ProviderInit
    \/ Start
    \/ StopRaise
    \/ StopJoin
    \/ \E call \in {"vehicle", "routing"} : UpdaterLock(call)
    \/ \E vs \in VehicleStates : UpdateVehicleState(vs)
    \/ \E r \in Routes, accepted \in BOOLEAN : UpdateRoutingResponse(r, accepted)
    \/ WorkerStep
    \/ \E c \in Consumers :
           \/ \E lists \in CallerLists : Call(c, lists)
           \/ ConsumerStep(c)
           \/ SpuriousWakeup(c)

Spec == Init /\ [][Next]_vars

(* ------------------- the methods, called on their own ------------------ *)

\* IsReferenceLineSmoothValid, lines 263-273, from the sample s on: length
\* is raw.Length() and diff[s] the distance between the two paths'
\* reference points at s. The counter s is an int that 5.0 is added to.
RECURSIVE ValidFrom(_, _, _)
ValidFrom(s, length, diff) ==
    IF ~(s < length) THEN TRUE
    ELSE IF diff[s] > kReferenceLineDiffCheckResolution THEN FALSE
    ELSE ValidFrom(s + kReferenceLineDiffCheckResolution, length, diff)

\* IsReferenceLineSmoothValid(raw, smoothed)
IsReferenceLineSmoothValid(length, diff) == ValidFrom(0, length, diff)


\* IsAllowChangeLane(point, route_segments), lines 72-117, no other thread
\* running; proj is what GetProjection answers on the forward segment. What
\* it returns and the table it leaves.
IsAllowChangeLane(point, segs, proj) ==
    LET fwd == FirstOn(segs)
        kept == segment_history_
    IN IF reckless_change_lane THEN [result |-> TRUE, history |-> kept]
       ELSE IF Len(segs) <= 1 THEN [result |-> FALSE, history |-> kept]
       ELSE IF fwd = 0 THEN [result |-> TRUE, history |-> kept]
       ELSE IF ~proj.ok THEN [result |-> FALSE, history |-> kept]
       ELSE LET id == segs[fwd].id
                e == segment_history_[id]
                n == HistoryUpdate(e, proj.l, point)
            IN IF ~e.present
               THEN [result |-> FALSE,
                     history |-> [kept EXCEPT
                                     ![id] = HistoryInsert(proj.l, point)]]
               ELSE [result |-> ChangeLaneThreshold(n),
                     history |-> [kept EXCEPT ![id] = n]]


\* Everything but the record of the helper's call.
provider ==
    <<enable_thread, reckless_change_lane, prioritize_change_lane, callers,
      map_lanes, is_initialized_, has_routing_, is_stop_, vehicle_state_,
      pnc_routing, segment_history_, pnc_map_mutex_, reference_lines_mutex_,
      cv_waiters, reference_lines_, route_segments_, pc, loc, out, ret, runs>>

\* The candidate lists PrioritzeChangeLane is given.
UnitLists == UNION {[1..n -> Segment] : n \in 0..MaxUnitLen}

\* The entries a table can hold after some observations: min_l is the least
\* |l| seen, accumulate_s a sum of distances between positions.
UnitEntries ==
    {NoEntry} \cup
    [present : {TRUE}, min_l : {Abs(l) : l \in LValues}, last_point : Points,
     accumulate_s : {0, 5, 10, 15, 20}]

\* The tables explored: at most one segment has an entry.
UnitTables ==
    {h \in [SegIds -> UnitEntries] :
        \A i, j \in SegIds : h[i].present /\ h[j].present => i = j}

\* What GetProjection answers: failure, or l.
Projections ==
    {p \in [ok : BOOLEAN, l : LValues] : p.ok \/ \A l \in LValues : p.l <= l}

\* The lengths of the raw paths IsReferenceLineSmoothValid is given: none,
\* multiples of the resolution, and one in between.
UnitLengths == {0, 5, 7, 10}

\* The arclengths up to the longest path at which a sample can be taken, and
\* the distances between the two paths there: none, the resolution, more.
SamplePoints == {0, 5, 10}

Deviations == {0, 5, 6}

\* The members a method called on its own finds: no routing yet and an
\* empty table, or a route and a table.
UnitStates ==
    {[has_routing |-> FALSE, pnc_routing |-> 0,
      history |-> [i \in SegIds |-> NoEntry]]} \cup
    [has_routing : {TRUE}, pnc_routing : Routes, history : UnitTables]

\* The calls made: the method and its arguments.
UnitCalls ==
    {[fn |-> "prioritize", segs |-> segs, done |-> FALSE, result |-> <<>>] :
         segs \in UnitLists}
    \cup
    {[fn |-> "routing", routing |-> r, accepted |-> a, done |-> FALSE,
      result |-> <<>>] : r \in Routes, a \in BOOLEAN}
    \cup
    {[fn |-> "allow", segs |-> segs, point |-> p, proj |-> proj,
      done |-> FALSE, result |-> <<>>] :
         segs \in UnitLists, p \in Points, proj \in Projections}
    \cup
    {[fn |-> "valid", length |-> n, diff |-> d, done |-> FALSE,
      result |-> <<>>] : n \in UnitLengths, d \in [SamplePoints -> Deviations]}

\* An initialized provider, no thread inside it, about to be called.
UnitInit ==
    /\ unit \in UnitCalls
    /\ \E d \in Deployments :
           /\ enable_thread = d.enable_thread
           /\ reckless_change_lane = d.reckless_change_lane
           /\ prioritize_change_lane = d.prioritize_change_lane
           /\ callers = d.callers
           /\ map_lanes = d.lanes
    /\ \E st \in UnitStates :
           /\ unit.fn = "prioritize" =>
                  st.history = [i \in SegIds |-> NoEntry]
           /\ unit.fn = "allow" => st.pnc_routing = 1
           /\ unit.fn = "valid" =>
                  st.history = [i \in SegIds |-> NoEntry]
           /\ has_routing_ = st.has_routing
           /\ pnc_routing = st.pnc_routing
           /\ segment_history_ = st.history
    /\ is_initialized_ = TRUE
    /\ is_stop_ = FALSE
    /\ vehicle_state_ = [point |-> <<0, 0>>, v |-> 0]
    /\ pnc_map_mutex_ = Free
    /\ reference_lines_mutex_ = Free
    /\ cv_waiters = {}
    /\ reference_lines_ = <<>>
    /\ route_segments_ = <<>>
    /\ pc = [t \in Threads |-> IF t = Worker THEN "none" ELSE "idle"]
    /\ loc = [t \in Runners |-> NoLocals]
    /\ out = [t \in Runners |-> EmptyOut]
    /\ ret = [t \in Runners |-> FALSE]
    /\ runs = 0

\* PrioritzeChangeLane(&route_segments): the list is reordered in place.
UnitPrioritzeChangeLane ==
    /\ unit.fn = "prioritize"
    /\ ~unit.done
    /\ unit' = [unit EXCEPT !.done = TRUE,
                            !.result = PrioritzeChangeLane(unit.segs)]
    /\ UNCHANGED provider

\* UpdateRoutingResponse(routing) from lock to return, no other thread
\* running: what it returns and leaves, next to what it found.
UnitUpdateRoutingResponse ==
    /\ unit.fn = "routing"
    /\ ~unit.done
    /\ unit' = [unit EXCEPT
                   !.done = TRUE,
                   !.result = RoutingOutcome(unit.routing, unit.accepted)]
    /\ UNCHANGED provider

\* CreateReferenceLineFromRouting, lines 235-238, no other thread running:
\* the list is prioritized when configured, then IsAllowChangeLane is
\* called with the snapshotted position and the list.
UnitEligibility ==
    /\ unit.fn = "allow"
    /\ ~unit.done
    /\ unit' = [unit EXCEPT
                   !.done = TRUE,
                   !.result = IsAllowChangeLane(unit.point,
                                                Prioritized(unit.segs),
                                                unit.proj)]
    /\ UNCHANGED provider

\* IsReferenceLineSmoothValid(raw, smoothed)
UnitIsReferenceLineSmoothValid ==
    /\ unit.fn = "valid"
    /\ ~unit.done
    /\ unit' = [unit EXCEPT
                   !.done = TRUE,
                   !.result = IsReferenceLineSmoothValid(unit.length,
                                                         unit.diff)]
    /\ UNCHANGED provider

UnitNext ==
    \/ UnitPrioritzeChangeLane
    \/ UnitUpdateRoutingResponse
    \/ UnitEligibility
    \/ UnitIsReferenceLineSmoothValid

UnitSpec == UnitInit /\ [][UnitNext]_vars

(* ------------------------------- claims -------------------------------- *)

\* C1: in threaded mode every return of GetReferenceLines hands back a
\* non-empty list of reference lines, copied from a snapshot that a
\* successful tick has published (none of its lines is the caller's own).
C1_ReturnsAfterFirstTick ==
    \A c \in Consumers :
        (enable_thread /\ pc[c] = "returned") =>
            /\ ret[c]
            /\ out[c].reference_lines # <<>>
            /\ \A i \in 1..Len(out[c].reference_lines) :
                   out[c].reference_lines[i].run >= 1
            /\ reference_lines_ # <<>>

\* A consumer has returned in threaded mode while the other one is still
\* blocked in wait.
C1_Witness ==
    /\ enable_thread
    /\ \E c, d \in Consumers :
           /\ pc[c] = "returned"
           /\ out[c].reference_lines # <<>>
           /\ pc[d] = "waiting"

\* The two lists hold as many elements, from the same segments of one
\* single run.
FromOneRun(lines, segs) ==
    /\ Len(lines) = Len(segs)
    /\ \A i \in 1..Len(lines) :
           /\ lines[i].id = segs[i].id
           /\ lines[i].run = segs[i].run
           /\ lines[i].run = lines[1].run
           /\ lines[i].run >= 1

\* C3: whenever a consumer holds the snapshot lock, the snapshot's two lists
\* are both empty or hold as many elements from one single run, and what a
\* consumer has copied out is non-empty and from one single run.
C3_SnapshotReplacedAsAWhole ==
    \A c \in Consumers :
        /\ reference_lines_mutex_ = c =>
               FromOneRun(reference_lines_, route_segments_)
        /\ (enable_thread /\ pc[c] = "returned") =>
               /\ out[c].reference_lines # <<>>
               /\ FromOneRun(out[c].reference_lines, out[c].segments)

\* A consumer holds the snapshot lock on the snapshot of the second run,
\* which replaced the first one's.
C3_Witness ==
    \E c \in Consumers :
        /\ reference_lines_mutex_ = c
        /\ reference_lines_ # <<>>
        /\ reference_lines_[1].run = 2

\* C4: no step of the worker inside the pipeline touches the snapshot, its
\* lock or the waiting consumers; a run that fails takes the worker back to
\* the head of the loop; the worker goes on to publish only what a
\* successful run produced; and it leaves the loop only on the stop flag.
C4_FailedTickLeavesSnapshot ==
    [][LET w == pc[Worker]
           w2 == pc'[Worker]
       IN /\ (w \in PipelinePcs /\ w2 # w) =>
                 UNCHANGED <<snapshot, cv_waiters, reference_lines_mutex_>>
          /\ (w \in PipelinePcs /\ w2 \notin PipelinePcs
                  /\ ~loc'[Worker].result) => w2 = "loop"
          /\ (w2 = "publish_lock" /\ w # w2) =>
                 loc'[Worker].result /\ out'[Worker].reference_lines # <<>>
          /\ (w2 = "done" /\ w # w2) => is_stop_]_vars

\* The worker is back at the head of the loop after its second run failed,
\* the snapshot of the first run still published.
C4_Witness ==
    /\ pc[Worker] = "loop"
    /\ loc[Worker].run = 2
    /\ ~loc[Worker].result
    /\ reference_lines_ # <<>>
    /\ reference_lines_[1].run = 1

\* The threads about to read or write vehicle_state_ or segment_history_:
\* a runner at the velocity read (line 219), at the position read and the
\* map query (lines 226-230) or at the insert or update of its history
\* entry (lines 97-108), and the updater inside either update.
AccessesState(t) ==
    \/ t \in Runners /\ pc[t] \in {"look_forward", "fetch", "history"}
    \/ t = Updater /\ pc[t] \in {"vehicle", "routing"}

\* C6: a thread that reads or writes the vehicle state or the segment
\* history holds the state lock.
C6_StateAccessUnderLock ==
    \A t \in Threads : AccessesState(t) => pnc_map_mutex_ = t

\* C7: in synchronous mode nobody ever holds the snapshot lock or waits on
\* the condition variable, the snapshot stays as constructed, no consumer is
\* at a position of the threaded branch, and GetReferenceLines returns what
\* the pipeline answered.
C7_SynchronousLeavesSnapshot ==
    ~enable_thread =>
        /\ reference_lines_mutex_ = Free
        /\ cv_waiters = {}
        /\ reference_lines_ = <<>>
        /\ route_segments_ = <<>>
        /\ \A c \in Consumers :
               /\ pc[c] \notin {"snap_lock", "check", "waiting", "reacquire",
                                "recheck"}
               /\ pc[c] = "returned" =>
                      loc[c].run >= 1 /\ ret[c] = loc[c].result

\* In synchronous mode a call has returned the success of its run, another
\* call has returned the failure of its own.
C7_Witness ==
    /\ ~enable_thread
    /\ \E c, d \in Consumers :
           /\ pc[c] = "returned" /\ ret[c] /\ loc[c].produced > 0
           /\ pc[d] = "returned" /\ ~ret[d]

\* C8: a pipeline run that has returned answered success exactly if it
\* produced at least one reference line.
C8_FailsIffNoLineProduced ==
    \A t \in Runners :
        (loc[t].run >= 1 /\ pc[t] \notin PipelinePcs) =>
            (loc[t].result <=> loc[t].produced > 0)

\* C9: find() answers end() exactly when the forward segment has no entry,
\* and the call that found none creates the entry with min_l = |l|,
\* last_point = the position and accumulate_s = 0, and returns false.
C9_FirstObservation ==
    [][\A t \in Runners :
           /\ (pc[t] = "allow" /\ pc'[t] = "history") =>
                  /\ ~reckless_change_lane
                  /\ Len(loc'[t].route_segments) >= 2
                  /\ \E i \in 1..Len(loc'[t].route_segments) :
                         /\ loc'[t].route_segments[i].on
                         /\ loc'[t].route_segments[i].id = loc'[t].id
                  /\ loc'[t].iter = "end"
                         <=> ~segment_history_[loc'[t].id].present
          /\ (pc[t] = "history" /\ pc'[t] # "history"
                  /\ loc[t].iter = "end") =>
                  /\ ~loc'[t].is_allow_change_lane
                  /\ segment_history_'[loc[t].id] =
                         [present |-> TRUE,
                          min_l |-> IF loc[t].l < 0 THEN -loc[t].l
                                    ELSE loc[t].l,
                          last_point |-> loc[t].point,
                          accumulate_s |-> 0]]_vars

\* A run has returned after the first observation of segment 2, made off
\* the centerline to the negative side, away from the first position.
C9_Witness ==
    \E t \in Runners :
        /\ loc[t].run >= 1
        /\ pc[t] \notin PipelinePcs
        /\ ~loc[t].is_allow_change_lane
        /\ segment_history_[2] =
               [present |-> TRUE, min_l |-> 10, last_point |-> <<3, 4>>,
                accumulate_s |-> 0]

\* C10: the call that found an entry returns true exactly if the entry it
\* leaves has min_l below 0.25 and accumulate_s at least 0.6 times the
\* minimum lane-change length, that entry being the old one with the minimum
\* taken and the distance from the last position added.
C10_Threshold ==
    [][\A t \in Runners :
           (pc[t] = "history" /\ pc'[t] # "history" /\ loc[t].iter = "found")
               => LET old == segment_history_[loc[t].id]
                      new == segment_history_'[loc[t].id]
                      abs_l == IF loc[t].l < 0 THEN -loc[t].l ELSE loc[t].l
                      dx == loc[t].point[1] - old.last_point[1]
                      dy == loc[t].point[2] - old.last_point[2]
                      d == new.accumulate_s - old.accumulate_s
                  IN /\ new.present
                     /\ new.min_l = IF abs_l < old.min_l THEN abs_l
                                    ELSE old.min_l
                     /\ d >= 0 /\ d * d = dx * dx + dy * dy
                     /\ new.last_point = loc[t].point
                     /\ loc'[t].is_allow_change_lane
                            <=> (new.min_l < 25
                                 /\ 10 * new.accumulate_s
                                        >= 6 * FLAGS_min_length_for_lane_change)
      ]_vars

\* A run has returned true with the accumulated distance exactly 0.6 times
\* the minimum lane-change length and min_l 0.1.
C10_Witness ==
    \E t \in Runners, id \in SegIds :
        /\ loc[t].run >= 1
        /\ pc[t] \notin PipelinePcs
        /\ loc[t].is_allow_change_lane
        /\ ~reckless_change_lane
        /\ segment_history_[id].present
        /\ segment_history_[id].min_l = 10
        /\ 10 * segment_history_[id].accumulate_s
               = 6 * FLAGS_min_length_for_lane_change

\* C2: a consumer blocked in wait while the snapshot is non-empty returns
\* in the end. In particular it is never left blocked, the snapshot
\* non-empty, once the worker, the only thread that notifies, has left its
\* loop: from there on only a spurious wakeup could make it return.
C2_NoConsumerLeftWaiting ==
    \A c \in Consumers :
        ~(/\ pc[c] = "waiting"
          /\ c \in cv_waiters
          /\ reference_lines_ # <<>>
          /\ pc[Worker] = "done")

\* How far the worker is from the end of its iteration.
Rank(p) ==
    CASE p = "sleep" -> 12
      [] p = "look_forward" -> 11
      [] p = "state_lock" -> 10
      [] p = "fetch" -> 9
      [] p = "allow" -> 8
      [] p = "history" -> 7
      [] p = "publish_lock" -> 6
      [] p = "publish_lines" -> 5
      [] p = "publish_segments" -> 4
      [] p = "notify" -> 3
      [] p = "loop" -> 2
      [] OTHER -> 1

\* The thread holding the lock the worker waits for can release it.
HolderReleases ==
    \/ /\ pc[Worker] = "state_lock"
       /\ \/ pnc_map_mutex_ = Updater
             /\ \/ ENABLED (\E vs \in VehicleStates : UpdateVehicleState(vs))
                \/ ENABLED (\E r \in Routes, accepted \in BOOLEAN :
                                UpdateRoutingResponse(r, accepted))
          \/ \E c \in Consumers : pnc_map_mutex_ = c /\ ENABLED Fetch(c)
    \/ /\ pc[Worker] = "publish_lock"
       /\ \E c \in Consumers : reference_lines_mutex_ = c /\ ENABLED Check(c)

\* C5: Stop returns only once the worker, if there is one, has left its
\* loop; the flag stays up; with the flag up the worker starts no further
\* iteration, every step it takes brings it nearer to the end of the
\* iteration in flight and then out of the loop, and it can always take a
\* step unless it waits for a lock whose holder can release it; once out of
\* the loop it does nothing more.
C5_StopEndsWorker ==
    /\ [][/\ (pc'[Stopper] = "stopped" /\ pc[Stopper] # "stopped") =>
                 pc[Worker] \in {"none", "done"}
          /\ (pc[Stopper] = "join" /\ pc'[Stopper] # "join") =>
                 pc[Worker] = "done"
          /\ is_stop_ => is_stop_'
          /\ is_stop_ => ~(pc[Worker] = "loop" /\ pc'[Worker] = "sleep")
          /\ (is_stop_ /\ pc'[Worker] # pc[Worker] /\ pc[Worker] # "none") =>
                 Rank(pc'[Worker]) < Rank(pc[Worker])
          /\ pc[Worker] = "done" =>
                 /\ pc'[Worker] = "done"
                 /\ UNCHANGED <<snapshot, runs>>]_vars
    /\ [](is_stop_ /\ pc[Worker] \notin {"none", "done"} =>
              ENABLED WorkerStep \/ HolderReleases)

\* Stop has returned from the join of a worker that had published and was
\* inside an iteration when the flag went up.
C5_Witness ==
    /\ pc[Stopper] = "stopped"
    /\ pc[Worker] = "done"
    /\ reference_lines_ # <<>>
    /\ runs >= 1

\* How often x occurs in the list s.
Count(s, x) == Cardinality({k \in 1..Len(s) : s[k] = x})

\* C11: PrioritzeChangeLane answers a list of the same length holding every
\* segment as often as before; when every segment is the current one the
\* list is as it was; otherwise the first segment that is not the current
\* one is at the front, the segments before it have moved back by one place
\* in their order, and the segments after it are where they were (so a list
\* whose first segment is already not the current one is as it was).
C11_PrioritizeMovesOneToFront ==
    (unit.fn = "prioritize" /\ unit.done) =>
        LET s == unit.segs
            r == unit.result
        IN /\ Len(r) = Len(s)
           /\ \A x \in Segment : Count(r, x) = Count(s, x)
           /\ (\A k \in 1..Len(s) : s[k].on) => r = s
           /\ (Len(s) > 0 /\ ~s[1].on) => r = s
           /\ \A i \in 1..Len(s) :
                  (~s[i].on /\ \A j \in 1..(i - 1) : s[j].on) =>
                      /\ r[1] = s[i]
                      /\ \A j \in 1..(i - 1) : r[j + 1] = s[j]
                      /\ \A j \in (i + 1)..Len(s) : r[j] = s[j]

\* The third of three segments was the first that is not the current one
\* and has been moved in front of two different segments.
C11_Witness ==
    /\ unit.fn = "prioritize"
    /\ unit.done
    /\ unit.segs = <<[id |-> 1, on |-> TRUE], [id |-> 2, on |-> TRUE],
                     [id |-> 2, on |-> FALSE]>>
    /\ unit.result = <<[id |-> 2, on |-> FALSE], [id |-> 1, on |-> TRUE],
                       [id |-> 2, on |-> TRUE]>>

\* C12: a routing update that changes the route the map holds leaves the
\* table empty, one that does not change it (the same route again, or a
\* rejected one) leaves the table as it was, and no other step of any
\* thread removes an entry.
C12_HistoryClearedOnRouteChange ==
    [][IF pc[Updater] = "routing" /\ pc'[Updater] = "idle"
       THEN IF pnc_routing' # pnc_routing
            THEN \A id \in SegIds : ~segment_history_'[id].present
            ELSE segment_history_' = segment_history_
       ELSE \A id \in SegIds :
                segment_history_[id].present => segment_history_'[id].present
      ]_vars

\* A second route has been accepted and the table is empty, after a run had
\* found an entry in it.
C12_Witness ==
    /\ pnc_routing = 2
    /\ \A id \in SegIds : ~segment_history_[id].present
    /\ \E t \in Runners : loc[t].iter = "dangling"

\* C13: a call the map rejected has returned false and left has_routing_
\* and the table as it found them, and a call returns true only with
\* has_routing_ up.
C13_RejectedRoutingRetainsState ==
    (unit.fn = "routing" /\ unit.done) =>
        /\ ~unit.accepted =>
               /\ unit.result.result = FALSE
               /\ unit.result.has_routing = has_routing_
               /\ unit.result.history = segment_history_
        /\ unit.accepted =>
               /\ unit.result.result = TRUE
               /\ unit.result.has_routing = TRUE

\* A provider that had no routing yet has been handed a routing the map
\* rejected.
C13_Witness ==
    /\ unit.fn = "routing"
    /\ unit.done
    /\ ~unit.accepted
    /\ ~has_routing_
    /\ ~unit.result.has_routing

\* C14: in threaded mode, as long as the map has accepted no routing,
\* has_routing_ is down, the worker is at the head of its loop or in the
\* sleep of a tick, no pipeline run has started, the snapshot is empty and
\* the table is empty; and the tick that ends with has_routing_ down takes
\* the worker back to the head of the loop and changes nothing else.
C14_NoTickBeforeRouting ==
    /\ [](enable_thread /\ pnc_routing = 0 =>
              /\ ~has_routing_
              /\ pc[Worker] \in {"none", "loop", "sleep", "done"}
              /\ runs = 0
              /\ reference_lines_ = <<>>
              /\ route_segments_ = <<>>
              /\ \A id \in SegIds : ~segment_history_[id].present)
    /\ [][(pc[Worker] = "sleep" /\ pc'[Worker] # "sleep" /\ ~has_routing_) =>
              /\ pc'[Worker] = "loop"
              /\ UNCHANGED <<snapshot, segment_history_, runs, cv_waiters,
                             reference_lines_mutex_, pnc_map_mutex_>>]_vars

\* The worker is in the sleep of a tick, no routing accepted so far (one is
\* being handed in), a consumer blocked in wait on the empty snapshot.
C14_Witness ==
    /\ pc[Worker] = "sleep"
    /\ pnc_routing = 0
    /\ pc[Updater] = "routing"
    /\ \E c \in Consumers : pc[c] = "waiting"

\* The segments of a list without the mark of the run that appended them.
Untagged(segs) ==
    [i \in 1..Len(segs) |-> [id |-> segs[i].id, on |-> segs[i].on]]

\* Whether a can be had from b by leaving elements out.
RECURSIVE IsSubsequence(_, _)
IsSubsequence(a, b) ==
    IF a = <<>> THEN TRUE
    ELSE IF b = <<>> THEN FALSE
    ELSE IF a[1] = b[1] THEN IsSubsequence(Tail(a), Tail(b))
    ELSE IsSubsequence(a, Tail(b))

\* C15: when a pipeline run returns, the two output lists hold as many
\* elements, the i-th line made from the i-th segment; the output segments
\* are, in order, some of the candidates as prioritized; and when the run's
\* eligibility was false every output segment is the current one.
C15_OutputIsFilteredCandidates ==
    [][\A t \in Runners :
           (pc[t] \in {"allow", "history"} /\ pc'[t] \notin PipelinePcs) =>
               LET candidates == IF pc[t] = "allow"
                                 THEN Prioritized(loc[t].route_segments)
                                 ELSE loc[t].route_segments
                   lines == out'[t].reference_lines
                   segs == out'[t].segments
               IN /\ Len(lines) = Len(segs)
                  /\ \A i \in 1..Len(segs) : lines[i].id = segs[i].id
                  /\ IsSubsequence(Untagged(segs), candidates)
                  /\ ~loc'[t].is_allow_change_lane =>
                         \A i \in 1..Len(segs) : segs[i].on
      ]_vars

\* What IsAllowChangeLane, given the position point, the candidates segs and
\* the projection proj, is to answer (result) and leave (history) when it
\* finds the table h.
Eligibility(point, segs, proj, h, answer) ==
    LET abs_l == IF proj.l < 0 THEN -proj.l ELSE proj.l
        same == answer.history = h
    IN /\ reckless_change_lane => answer.result /\ same
       /\ (~reckless_change_lane /\ Len(segs) <= 1) =>
              ~answer.result /\ same
       /\ (~reckless_change_lane /\ Len(segs) > 1
               /\ \A k \in 1..Len(segs) : ~segs[k].on) =>
              answer.result /\ same
       /\ \A i \in 1..Len(segs) :
              (~reckless_change_lane /\ Len(segs) > 1
                   /\ segs[i].on /\ \A j \in 1..(i - 1) : ~segs[j].on) =>
                  IF ~proj.ok THEN ~answer.result /\ same
                  ELSE LET id == segs[i].id
                           old == h[id]
                           new == answer.history[id]
                       IN /\ \A o \in SegIds \ {id} : answer.history[o] = h[o]
                          /\ new.present
                          /\ new.last_point = point
                          /\ IF ~old.present
                             THEN /\ ~answer.result
                                  /\ new.min_l = abs_l
                                  /\ new.accumulate_s = 0
                             ELSE LET d == new.accumulate_s - old.accumulate_s
                                      dx == point[1] - old.last_point[1]
                                      dy == point[2] - old.last_point[2]
                                  IN /\ new.min_l = IF abs_l < old.min_l
                                                    THEN abs_l ELSE old.min_l
                                     /\ d >= 0 /\ d * d = dx * dx + dy * dy
                                     /\ answer.result <=>
                                            (new.min_l < 25
                                             /\ 10 * new.accumulate_s >=
                                                6 * FLAGS_min_length_for_lane_change)

\* C16: the eligibility a pipeline run computes, and the table it leaves,
\* are those of IsAllowChangeLane on the snapshotted position and the
\* candidate list as the map answered it, prioritization configured or not.
C16_EligibilityOfUnprioritizedList ==
    (unit.fn = "allow" /\ unit.done) =>
        Eligibility(unit.point, unit.segs, unit.proj, segment_history_,
                    unit.result)

\* Prioritization is configured and has moved the second of three
\* candidates in front of the current one, whose entry reached the
\* threshold with this observation.
C16_Witness ==
    /\ unit.fn = "allow"
    /\ unit.done
    /\ prioritize_change_lane
    /\ ~reckless_change_lane
    /\ Len(unit.segs) = 3
    /\ unit.segs[1].on
    /\ ~unit.segs[2].on
    /\ unit.proj.ok
    /\ segment_history_[unit.segs[1].id].present
    /\ ~ChangeLaneThreshold(segment_history_[unit.segs[1].id])
    /\ unit.result.result

\* Whether the entry e passes the threshold test.
Latched(e) ==
    /\ e.present
    /\ e.min_l < 25
    /\ 10 * e.accumulate_s >= 6 * FLAGS_min_length_for_lane_change

\* C19: a call of IsAllowChangeLane removes no entry, raises no entry's
\* min_l and lowers no entry's accumulate_s; an entry that passes the
\* threshold test still passes it after the call; and a call that finds the
\* entry of its forward segment passing the test (two candidates or more,
\* the projection succeeding) returns true.
C19_HysteresisLatch ==
    (unit.fn = "allow" /\ unit.done) =>
        /\ \A id \in SegIds :
               LET old == segment_history_[id]
                   new == unit.result.history[id]
               IN old.present =>
                      /\ new.present
                      /\ new.min_l <= old.min_l
                      /\ new.accumulate_s >= old.accumulate_s
                      /\ Latched(old) => Latched(new)
        /\ \A i \in 1..Len(unit.segs) :
               (/\ Len(unit.segs) >= 2
                /\ unit.segs[i].on
                /\ \A j \in 1..(i - 1) : ~unit.segs[j].on
                /\ unit.proj.ok
                /\ Latched(segment_history_[unit.segs[i].id]))
                   => unit.result.result

\* The entry of the forward segment passed the test, this observation is
\* 0.25 off the centerline and away from the last position, and the call has
\* returned true, the entry keeping its min_l.
C19_Witness ==
    /\ unit.fn = "allow"
    /\ unit.done
    /\ ~reckless_change_lane
    /\ Len(unit.segs) >= 2
    /\ unit.proj.ok
    /\ unit.proj.l = 25
    /\ \E i \in 1..Len(unit.segs) :
           /\ unit.segs[i].on
           /\ \A j \in 1..(i - 1) : ~unit.segs[j].on
           /\ Latched(segment_history_[unit.segs[i].id])
           /\ segment_history_[unit.segs[i].id].last_point # unit.point
           /\ unit.result.history[unit.segs[i].id].min_l = 10
    /\ unit.result.result

\* C17: a thread running the pipeline holds the state lock only between
\* taking it and the map's answer: it holds it neither before, nor where it
\* prioritizes, computes the eligibility and smooths the candidates, nor
\* after the run; and the step in which it smooths leaves the lock alone.
C17_NoLockAcrossSmoothing ==
    /\ [](\A t \in Runners : pnc_map_mutex_ = t <=> pc[t] = "fetch")
    /\ [][\A t \in Runners :
              (pc[t] \in {"allow", "history"} /\ pc'[t] # pc[t]) =>
                  /\ pnc_map_mutex_ # t
                  /\ UNCHANGED pnc_map_mutex_]_vars

\* An update of the routing holds the state lock while a run, its candidates
\* fetched, is about to update the history and smooth.
C17_Witness ==
    /\ pnc_map_mutex_ = Updater
    /\ pc[Updater] = "routing"
    /\ \E t \in Runners :
           /\ pc[t] = "history"
           /\ Len(loc[t].route_segments) = 2

\* C18: IsReferenceLineSmoothValid returns false exactly if, at one of the
\* arclengths 0, 5, 10, ... up to the raw path's length, that length
\* included, the two paths are more than 5 apart.
C18_ValidIffNoSampleDeviates ==
    (unit.fn = "valid" /\ unit.done) =>
        (unit.result = FALSE
             <=> \E s \in SamplePoints : s <= unit.length /\ unit.diff[s] > 5)

\* The thread holding a lock is at a position from which its next step
\* releases it, and can take that step.
HolderProceeds ==
    /\ pnc_map_mutex_ = Updater =>
           \/ ENABLED (\E vs \in VehicleStates : UpdateVehicleState(vs))
           \/ ENABLED (\E r \in Routes, accepted \in BOOLEAN :
                           UpdateRoutingResponse(r, accepted))
    /\ \A t \in Runners : pnc_map_mutex_ = t => ENABLED Fetch(t)
    /\ reference_lines_mutex_ = Worker =>
           ENABLED PublishLines \/ ENABLED PublishSegments
    /\ \A c \in Consumers : reference_lines_mutex_ = c => ENABLED Check(c)

\* C20: no thread holds the state lock and the snapshot lock together; a
\* consumer blocked in wait, or woken and not yet through the wait, holds
\* neither; and whoever holds a lock can take the step that releases it, so
\* no thread waits for a lock whose holder is itself waiting.
C20_NoDeadlock ==
    /\ \A t \in Threads :
           ~(pnc_map_mutex_ = t /\ reference_lines_mutex_ = t)
    /\ \A c \in Consumers :
           (c \in cv_waiters \/ pc[c] \in {"waiting", "reacquire"}) =>
               pnc_map_mutex_ # c /\ reference_lines_mutex_ # c
    /\ HolderProceeds

\* Both locks are held, the state lock by an update and the snapshot lock
\* by the publishing worker, while a consumer is blocked in wait.
C20_Witness ==
    /\ pnc_map_mutex_ = Updater
    /\ reference_lines_mutex_ = Worker
    /\ cv_waiters # {}

====
